---- MODULE Spec2Model ----
(***************************************************************************)
(* Model of local-code-search: the dispatcher of code_search_server.rs,    *)
(* the per-project worker of project_service.rs, the file set of           *)
(* project_files.rs, the store of project_repository.rs and the chunker    *)
(* of code_splitter.rs.                                                    *)
(*                                                                         *)
(* Text is a sequence of bytes (integers).  Bytes 128..191 are UTF-8       *)
(* continuation bytes, so a character count differs from a byte count and  *)
(* a slice that does not fall on a character boundary panics, as a Rust    *)
(* str slice does.                                                         *)
(***************************************************************************)
EXTENDS Integers, Sequences, FiniteSets, TLC

VARIABLES
    nworkers,   \* worker threads of the tokio runtime (#[tokio::main])
    disk,       \* the file system: path -> bytes, Absent or Invalid
    map,        \* CodeSearchServer.0 : canonical root -> stub handle or NoStub
    lock,       \* holder of the DashMap guard of a root (a request id) or 0
    req,        \* the requests: search_code tasks of the server, calls on a stub
    idx,        \* the Project Indexer of a root: worker state, files, repository
    queue,      \* the server_transport of a root: messages not yet handled
    nsent,      \* history: messages written to the transport of a root so far
    lastOp,     \* history: what the last step of the worker of a root did
    started,    \* history: how often ProjectService::start ran for a root
    splitter    \* a CodeSplitter of its own: tree, source, max_chunk_size, output

vars == <<nworkers, disk, map, lock, req, idx, queue, nsent, lastOp, started, splitter>>

-----------------------------------------------------------------------------
(* Bounds of the model *)

MaxRequests == 2    \* search_code requests the clients of the server issue
MaxCalls == 2       \* calls the holder of a stub makes on it
ChunkLimit == 4     \* max_chunk_size handed to the splitter (1000 in
                    \* ProjectFile::chunks), scaled to the model's texts

(* Program constants *)

SearchLimit == 5    \* LIMIT 5 of ProjectRepository::search

-----------------------------------------------------------------------------
(* Text *)

IsCont(b) == b >= 128 /\ b < 192
IsNewline(b) == b = 10
IsSpace(b) == b = 32 \/ IsNewline(b)

\* str::is_char_boundary
IsCharBoundary(src, i) ==
    \/ i = 0
    \/ i = Len(src)
    \/ (i > 0 /\ i < Len(src) /\ ~IsCont(src[i + 1]))

\* &src[s..e] does not panic
CanSlice(src, s, e) ==
    s <= e /\ e <= Len(src) /\ IsCharBoundary(src, s) /\ IsCharBoundary(src, e)

\* &src[s..e], byte offsets, zero-based, end exclusive
Slice(src, s, e) == SubSeq(src, s + 1, e)

\* str::chars().count()
CharCount(src) == Cardinality({i \in 1..Len(src) : ~IsCont(src[i])})

RECURSIVE SumBytes(_)
SumBytes(src) == IF src = <<>> THEN 0 ELSE Head(src) + SumBytes(Tail(src))

\* tree_sitter::Point of a byte offset: rows are newlines before it, the
\* column is the byte distance to the start of its line
PointAt(src, off) ==
    LET nls == {i \in 1..off : IsNewline(src[i])}
        lineStart == IF nls = {} THEN 0 ELSE CHOOSE i \in nls : \A j \in nls : j <= i
    IN [row |-> Cardinality(nls), column |-> off - lineStart]

-----------------------------------------------------------------------------
(* The parser (tree_sitter::Parser::parse): the root node spans the text,  *)
(* its children are the maximal runs of non-blank bytes.                   *)

Node(src, s, e, kids) ==
    [sb |-> s, eb |-> e, sp |-> PointAt(src, s), ep |-> PointAt(src, e), kids |-> kids]

RECURSIVE WordEnd(_, _)
WordEnd(src, i) ==
    IF i < Len(src) /\ ~IsSpace(src[i + 1]) THEN WordEnd(src, i + 1) ELSE i

RECURSIVE Words(_, _)
Words(src, i) ==
    IF i > Len(src) THEN <<>>
    ELSE IF IsSpace(src[i]) THEN Words(src, i + 1)
    ELSE LET e == WordEnd(src, i)
         IN <<Node(src, i - 1, e, <<>>)>> \o Words(src, e + 1)

Parse(src) == Node(src, 0, Len(src), Words(src, 1))

-----------------------------------------------------------------------------
(* code_splitter.rs *)

\* #[derive(Ord)] of TextPosition: by row, then by column
PosLeq(a, b) == a.row < b.row \/ (a.row = b.row /\ a.column <= b.column)
PosMin(a, b) == IF PosLeq(a, b) THEN a ELSE b
PosMax(a, b) == IF PosLeq(a, b) THEN b ELSE a

\* Chunk::default()
DefaultChunk ==
    [text |-> <<>>, range |-> [start |-> 0, end |-> 0],
     start |-> [row |-> 0, column |-> 0], end |-> [row |-> 0, column |-> 0]]

\* Range<usize>::len and Range<usize>::is_empty
RangeLen(s, e) == IF s < e THEN e - s ELSE 0
is_empty(chunk) == chunk.range.start >= chunk.range.end

\* Chunk::from_node; the slice panics when the node lies outside the source
from_node_ok(source, node) == CanSlice(source, node.sb, node.eb)
from_node(source, node) ==
    [text |-> Slice(source, node.sb, node.eb),
     range |-> [start |-> node.sb, end |-> node.eb],
     start |-> node.sp, end |-> node.ep]

\* Chunk::merge
merge_ok(self, other, source) == CanSlice(source, self.range.start, other.range.end)
merge(self, other, source) ==
    [text |-> Slice(source, self.range.start, other.range.end),
     range |-> [start |-> self.range.start, end |-> other.range.end],
     start |-> PosMin(self.start, other.start),
     end |-> PosMax(self.end, other.end)]

\* Chunk::merge_end
merge_end_ok(self, other, source) == CanSlice(source, self.range.end, other.range.end)
\* merge_end that keeps the start of self, as merge does
MergeFromStart(self, other, source) ==
    [text |-> Slice(source, self.range.start, other.range.end),
     range |-> [start |-> self.range.start, end |-> other.range.end],
     start |-> PosMin(self.start, other.start),
     end |-> PosMax(self.end, other.end)]
merge_end(self, other, source) ==
    [text |-> Slice(source, self.range.end, other.range.end),
     range |-> [start |-> self.range.end, end |-> other.range.end],
     start |-> PosMin(self.start, other.start),
     end |-> PosMax(self.end, other.end)]

\* CodeSplitter::chunk_size
chunk_size(source, s, e) == CharCount(Slice(source, s, e))

\* Option<Chunk>
NoChunk == [some |-> FALSE, chunk |-> DefaultChunk]
SomeChunk(c) == [some |-> TRUE, chunk |-> c]

\* a push of current_chunk that does not test is_empty
FlushAll(out, cur) ==
    IF cur.some THEN Append(out, cur.chunk) ELSE out

\* if let Some(chunk) = current_chunk.take() { if !chunk.is_empty() { push } }
Flush(out, cur) ==
    IF cur.some /\ ~is_empty(cur.chunk) THEN Append(out, cur.chunk) ELSE out

Panicked == [ok |-> FALSE, chunks |-> <<>>]

\* CodeSplitter::process_chunks: ChildLoop is the for loop over the children
\* from child i on, with the chunks pushed so far, last and current_chunk.
RECURSIVE ChildLoop(_, _, _, _, _, _, _)
process_chunks(source, max, out, last, node) ==
    ChildLoop(source, max, node.kids, 1, out, last, NoChunk)

ChildLoop(source, max, kids, i, out, last, cur) ==
    IF i > Len(kids) THEN [ok |-> TRUE, chunks |-> Flush(out, cur)]
    ELSE
    LET child == kids[i] IN
    IF RangeLen(child.sb, child.eb) > max THEN
        LET rec == process_chunks(source, max, Flush(out, cur), last, child) IN
        IF ~rec.ok \/ ~from_node_ok(source, child) THEN Panicked
        ELSE ChildLoop(source, max, kids, i + 1, rec.chunks,
                       from_node(source, child), NoChunk)
    ELSE IF \/ ~from_node_ok(source, child)
            \/ (cur.some /\ ~CanSlice(source, cur.chunk.range.start, cur.chunk.range.end))
            \/ ~merge_end_ok(last, from_node(source, child), source)
         THEN Panicked
    ELSE
    LET node_chunk == from_node(source, child)
        new_chunk == merge_end(last, node_chunk, source)
        cur_size == IF cur.some
                    THEN chunk_size(source, cur.chunk.range.start, cur.chunk.range.end)
                    ELSE 0
    IN
    IF cur_size + chunk_size(source, child.sb, child.eb) > max THEN
        ChildLoop(source, max, kids, i + 1, Flush(out, cur), node_chunk,
                  SomeChunk(new_chunk))
    ELSE IF cur.some /\ ~is_empty(cur.chunk) THEN
        IF ~merge_ok(cur.chunk, new_chunk, source) THEN Panicked
        ELSE ChildLoop(source, max, kids, i + 1, out, node_chunk,
                       SomeChunk(merge(cur.chunk, new_chunk, source)))
    ELSE ChildLoop(source, max, kids, i + 1, out, node_chunk, SomeChunk(new_chunk))

\* CodeSplitter::chunks
chunks(tree, source, max) == process_chunks(source, max, <<>>, DefaultChunk, tree)

-----------------------------------------------------------------------------
(* The file system the server runs on *)

Roots == {"/a", "/b"}

\* what a client may pass as project_path
ReqPaths == {"/a", "./a", "/b", "/gone"}

Paths == {"/a/lib.rs", "/a/main.go", "/a/README.md", "/a/target/junk.rs", "/b/m.rs"}

\* the files the environment rewrites while the server runs
MutablePaths == {"/a/lib.rs"}

\* what a path holds: text, nothing, or bytes that are not valid UTF-8
Absent == [kind |-> "absent", bytes |-> <<>>]
Invalid == [kind |-> "invalid", bytes |-> <<>>]
File(text) == [kind |-> "text", bytes |-> text]

TextAdd == <<97, 98, 10, 99>>
TextLong == <<100, 32, 101, 102, 10, 103>>
Texts == {TextAdd, TextLong}

\* std::fs::read_to_string succeeds
IsText(c) == c.kind = "text"

InitDisk ==
    [p \in Paths |->
        CASE p = "/a/lib.rs" -> File(TextAdd)
          [] p = "/a/main.go" -> File(TextLong)
          [] p = "/a/README.md" -> File(TextAdd)
          [] p = "/a/target/junk.rs" -> File(TextLong)
          [] p = "/b/m.rs" -> File(TextAdd)]

\* Path::extension
Ext(p) ==
    CASE p \in {"/a/lib.rs", "/a/target/junk.rs", "/b/m.rs"} -> "rs"
      [] p = "/a/main.go" -> "go"
      [] p = "/a/README.md" -> "md"

Under(root) == IF root = "/b" THEN {"/b/m.rs"} ELSE Paths \ {"/b/m.rs"}

\* the .gitignore of /a lists target/
Ignored(p) == p = "/a/target/junk.rs"

\* std::fs::canonicalize: fails on a path that does not exist
CanCanonicalize(project_path) == project_path # "/gone"
canonicalize(project_path) == IF project_path = "./a" THEN "/a" ELSE project_path

\* ignore::Walk::new(path): the entries under the root the ignore rules admit
Walk(d, root) == {p \in Under(root) : d[p] # Absent /\ ~Ignored(p)}

-----------------------------------------------------------------------------
(* project_files.rs *)

ScanExtensions == {"rs", "ts", "tsx", "py", "java", "kt", "json", "yaml", "yml"}
LanguageExtensions ==
    {"c", "cpp", "cs", "go", "java", "json", "kt", "py", "rs", "scala", "ts", "tsx",
     "yaml", "yml"}

ext_to_language(ext) == ext \in LanguageExtensions

RECURSIVE HashFrom(_, _)
HashFrom(h, src) ==
    IF src = <<>> THEN h ELSE HashFrom((h * 31 + Head(src)) % 65521, Tail(src))

\* hash_file: a digest of the bytes
hash_file(content) == HashFrom(7, content)

NoFile == [known |-> FALSE]
Failed == [ok |-> FALSE]

\* ProjectFile::new; parses is FALSE when the parser returns no tree
ProjectFile_new(d, path, parses) ==
    IF ~ext_to_language(Ext(path)) THEN Failed
    ELSE IF ~IsText(d[path]) THEN Failed
    ELSE IF ~parses THEN Failed
    ELSE [ok |-> TRUE,
          file |-> [known |-> TRUE, text |-> d[path].bytes,
                    hash |-> hash_file(d[path].bytes), tree |-> Parse(d[path].bytes)]]

\* an update that takes an unreadable file for an empty one
UpdateUnreadAsEmpty(d, path, file, parses) ==
    IF ~parses THEN Failed
    ELSE [ok |-> TRUE,
          file |-> [file EXCEPT !.hash = hash_file(d[path].bytes),
                                !.tree = Parse(d[path].bytes)]]

\* ProjectFile::update: hash and tree are replaced, text is not assigned
ProjectFile_update(d, path, file, parses) ==
    IF ~IsText(d[path]) THEN Failed
    ELSE IF ~parses THEN Failed
    ELSE [ok |-> TRUE,
          file |-> [file EXCEPT !.hash = hash_file(d[path].bytes),
                                !.tree = Parse(d[path].bytes)]]

\* ProjectFile::chunks
ProjectFile_chunks(file) == chunks(file.tree, file.text, ChunkLimit)

NoFiles == [p \in Paths |-> NoFile]

\* ProjectFiles::new: the first file that cannot be constructed aborts the scan
ProjectFiles_new(d, root, walks, parses) ==
    LET admitted == {p \in Walk(d, root) : Ext(p) \in ScanExtensions} IN
    IF ~walks THEN Failed
    ELSE IF \E p \in admitted : ~ProjectFile_new(d, p, parses).ok THEN Failed
    ELSE [ok |-> TRUE,
          files |-> [p \in Paths |->
                        IF p \in admitted THEN ProjectFile_new(d, p, parses).file
                        ELSE NoFile]]

\* ProjectFiles::create_or_update
create_or_update(files, d, file_path, parses) ==
    LET r == IF files[file_path].known
             THEN ProjectFile_update(d, file_path, files[file_path], parses)
             ELSE ProjectFile_new(d, file_path, parses)
    IN IF r.ok THEN [ok |-> TRUE, files |-> [files EXCEPT ![file_path] = r.file]]
       ELSE Failed

\* ProjectFiles::file_chunks
file_chunks(files, file_path) ==
    IF ~files[file_path].known THEN [ok |-> TRUE, chunks |-> <<>>]
    ELSE ProjectFile_chunks(files[file_path])

\* ProjectFiles::chunks_to_response; byte is kept beside the ResponseChunk
\* to say which bytes of the file the content stands for
RECURSIVE chunks_to_response(_, _)
chunks_to_response(files, outs) ==
    IF outs = <<>> THEN [ok |-> TRUE, chunks |-> <<>>]
    ELSE
    LET chunk == Head(outs)
        rest == chunks_to_response(files, Tail(outs))
    IN
    IF ~files[chunk.path].known THEN rest
    ELSE IF ~CanSlice(files[chunk.path].text, chunk.byte.start, chunk.byte.end)
         THEN Panicked
    ELSE IF ~rest.ok THEN Panicked
    ELSE [ok |-> TRUE,
          chunks |->
            <<[path |-> chunk.path, row |-> chunk.row, column |-> chunk.column,
               content |-> Slice(files[chunk.path].text, chunk.byte.start, chunk.byte.end),
               byte |-> chunk.byte]>> \o rest.chunks]

-----------------------------------------------------------------------------
(* project_repository.rs *)

\* TextEmbedding::embed of one text: a vector that depends on the text alone
Embed(text) == <<SumBytes(text) % 8, CharCount(text) % 8>>

Abs(n) == IF n < 0 THEN 0 - n ELSE n

\* the distance of the vec0 MATCH
Distance(u, v) == Abs(u[1] - v[1]) + Abs(u[2] - v[2])

\* the Chunk of project_repository.rs made of a Chunk of code_splitter.rs
RepoChunk(c) ==
    [row |-> [start |-> c.start.row, end |-> c.end.row],
     column |-> [start |-> c.start.column, end |-> c.end.column],
     byte |-> c.range,
     content |-> c.text]

RECURSIVE RepoChunks(_)
RepoChunks(cs) == IF cs = <<>> THEN <<>> ELSE <<RepoChunk(Head(cs))>> \o RepoChunks(Tail(cs))

\* ProjectRepository::new: both tables empty.  files[i] is the row with id i
\* (AUTOINCREMENT), next_id the next id of the chunks table.
EmptyStore == [files |-> <<>>, chunks |-> <<>>, next_id |-> 1]

\* SELECT id FROM files WHERE path = ? LIMIT 1
FileId(store, path) ==
    IF \E i \in 1..Len(store.files) : store.files[i].path = path
    THEN CHOOSE i \in 1..Len(store.files) :
            /\ store.files[i].path = path
            /\ \A j \in 1..Len(store.files) : store.files[j].path = path => i <= j
    ELSE 0

\* a DELETE that removes nothing
KeepChunks(rows, file_id) == rows

\* DELETE FROM chunks WHERE file_id = ?
RECURSIVE DeleteChunks(_, _)
DeleteChunks(rows, file_id) ==
    IF rows = <<>> THEN <<>>
    ELSE IF Head(rows).file_id = file_id THEN DeleteChunks(Tail(rows), file_id)
    ELSE <<Head(rows)>> \o DeleteChunks(Tail(rows), file_id)

ChunkRow(id, file_id, chunk) ==
    [id |-> id, file_id |-> file_id,
     start_row |-> chunk.row.start, start_column |-> chunk.column.start,
     end_row |-> chunk.row.end, end_column |-> chunk.column.end,
     start_byte |-> chunk.byte.start, end_byte |-> chunk.byte.end,
     embeddings |-> Embed(chunk.content)]

\* the for loop of insert_file: the first n of the chunks become rows
RECURSIVE InsertRows(_, _, _, _)
InsertRows(store, file_id, cs, n) ==
    IF n = 0 \/ cs = <<>> THEN store
    ELSE InsertRows(
            [store EXCEPT !.chunks = Append(@, ChunkRow(store.next_id, file_id, Head(cs))),
                          !.next_id = @ + 1],
            file_id, Tail(cs), n - 1)

\* the faults of one insert_file over n chunks: none, the SELECT, the
\* embedding, or the INSERT of row k
InsertFaults(n) ==
    {[at |-> "none", k |-> 0], [at |-> "select", k |-> 0], [at |-> "embed", k |-> 0]}
    \cup {[at |-> "row", k |-> k] : k \in 1..n}

NoFault == [at |-> "none", k |-> 0]

\* the match on the SELECT: an existing file loses its chunk rows and has
\* updated_at refreshed, a new path gets a files row
LookupOrInsert(store, path) ==
    IF FileId(store, path) # 0
    THEN [store EXCEPT !.chunks = DeleteChunks(@, FileId(store, path)),
                       !.files[FileId(store, path)].updated_at = @ + 1]
    ELSE [store EXCEPT !.files = Append(@, [path |-> path, updated_at |-> 0])]

\* ProjectRepository::insert_file.  The statements run outside a
\* transaction: what ran before the failing statement stays.
insert_file(store, path, cs, fault) ==
    IF fault.at = "select" THEN [ok |-> FALSE, store |-> store]
    ELSE
    LET s1 == LookupOrInsert(store, path)
        file_id == FileId(s1, path)
    IN
    IF fault.at = "embed" THEN [ok |-> FALSE, store |-> s1]
    ELSE IF fault.at = "row" /\ fault.k <= Len(cs)
         THEN [ok |-> FALSE, store |-> InsertRows(s1, file_id, cs, fault.k - 1)]
    ELSE [ok |-> TRUE, store |-> InsertRows(s1, file_id, cs, Len(cs))]

\* ORDER BY distance LIMIT k: the k rows nearest to the vector, ties by id
RECURSIVE Nearest(_, _, _)
Nearest(rows, v, k) ==
    IF k = 0 \/ rows = {} THEN <<>>
    ELSE
    LET best == CHOOSE r \in rows : \A o \in rows :
                    \/ Distance(r.embeddings, v) < Distance(o.embeddings, v)
                    \/ (Distance(r.embeddings, v) = Distance(o.embeddings, v) /\ r.id <= o.id)
    IN <<best>> \o Nearest(rows \ {best}, v, k - 1)

OutputChunk(store, r) ==
    [path |-> store.files[r.file_id].path,
     row |-> [start |-> r.start_row, end |-> r.end_row],
     column |-> [start |-> r.start_column, end |-> r.end_column],
     byte |-> [start |-> r.start_byte, end |-> r.end_byte]]

RECURSIVE OutputChunks(_, _)
OutputChunks(store, rs) ==
    IF rs = <<>> THEN <<>>
    ELSE <<OutputChunk(store, Head(rs))>> \o OutputChunks(store, Tail(rs))

\* ProjectRepository::search; fails when the embedding or a statement fails
search(store, query, fails) ==
    IF fails THEN [ok |-> FALSE, chunks |-> <<>>]
    ELSE [ok |-> TRUE,
          chunks |-> OutputChunks(store,
                        Nearest({store.chunks[i] : i \in 1..Len(store.chunks)},
                                Embed(query), SearchLimit))]

-----------------------------------------------------------------------------
(* project_service.rs *)

\* the for loop of ProjectService::new over all_chunks(): order is the
\* iteration order of the HashMap; a chunker panic or a failed insert_file
\* ends the loop
RECURSIVE InsertAll(_, _, _, _)
InsertAll(files, store, order, fault) ==
    IF order = <<>> THEN [ok |-> TRUE, store |-> store]
    ELSE
    LET cs == ProjectFile_chunks(files[Head(order)]) IN
    IF ~cs.ok THEN [ok |-> FALSE, store |-> store]
    ELSE
    LET r == insert_file(store, Head(order), RepoChunks(cs.chunks), fault) IN
    IF ~r.ok THEN r ELSE InsertAll(files, r.store, Tail(order), NoFault)

\* the orders in which a HashMap may yield the known paths
Orders(files) ==
    LET known == {p \in Paths : files[p].known} IN
    {o \in UNION {[1..n -> known] : n \in {Cardinality(known)}} :
        \A i, j \in 1..Len(o) : i # j => o[i] # o[j]}

BringUpFaults == {"none", "walk", "parse", "model", "embed"}

\* ProjectService::new
ProjectService_new(d, root, order, fault) ==
    LET fs == ProjectFiles_new(d, root, fault # "walk", fault # "parse") IN
    IF ~fs.ok \/ fault = "model" THEN Failed
    ELSE
    LET r == InsertAll(fs.files, EmptyStore, order,
                       IF fault = "embed" THEN [at |-> "embed", k |-> 0] ELSE NoFault)
    IN IF r.ok THEN [ok |-> TRUE, files |-> fs.files, store |-> r.store] ELSE Failed

-----------------------------------------------------------------------------
(* The state machine *)

ReqIds == DOMAIN req

\* the worker threads the runtime of #[tokio::main] may have
WorkerCounts == {1, 2}

Queries == {<<97, 98>>}

\* the paths a watcher reports to the indexer of /a
UpdatePaths == {"/a/lib.rs", "/a/main.go", "/a/README.md"}

Reply(kind, cs) == [kind |-> kind, chunks |-> cs]
IdleReq == [st |-> "idle", kind |-> "search", path |-> "", query |-> <<>>, handle |-> 0,
            reply |-> Reply("none", <<>>)]

\* handled, updates, up, waiting and seen are history: the messages handled,
\* the FileUpdated among them, whether ProjectService::new has returned, the
\* messages that were queued when it returned, and what the last successful
\* read of each path returned
NoIndexer == [state |-> "none", files |-> NoFiles, store |-> EmptyStore,
              handled |-> 0, updates |-> 0, up |-> FALSE, waiting |-> 0,
              seen |-> [p \in Paths |-> Absent]]
NoOp == [kind |-> "none"]

\* the server after main has bound the socket: no project is known
\* no CodeSplitter outside ProjectFile::chunks
NoSplitter == [done |-> FALSE]

Init ==
    /\ nworkers \in WorkerCounts
    /\ disk = InitDisk
    /\ map = [r \in Roots |-> 0]
    /\ lock = [r \in Roots |-> 0]
    /\ req = [c \in 1..MaxRequests |-> IdleReq]
    /\ idx = [r \in Roots |-> NoIndexer]
    /\ queue = [r \in Roots |-> <<>>]
    /\ nsent = [r \in Roots |-> 0]
    /\ lastOp = [r \in Roots |-> NoOp]
    /\ started = [r \in Roots |-> 0]
    /\ splitter = NoSplitter

\* project_path after `let project_path = canonicalize(project_path)`
RootOf(c) == req[c].path

\* a request task parked on the DashMap shard lock keeps its worker thread
FreeWorkers == nworkers - Cardinality({c \in ReqIds : req[c].st = "blocked"})

\* the file system changes under the server
WriteFile(p, content) ==
    /\ disk[p] # content
    /\ disk' = [disk EXCEPT ![p] = content]
    /\ UNCHANGED <<splitter, nworkers, map, lock, req, idx, queue, nsent, lastOp, started>>

\* a client calls CodeSearchRpc::search_code; the channel spawns the task
Request(c, project_path, query) ==
    /\ req[c].st = "idle"
    /\ \A b \in ReqIds : b < c => req[b].st # "idle"
    /\ req' = [req EXCEPT ![c] = [IdleReq EXCEPT !.st = "spawned",
                                                 !.path = project_path,
                                                 !.query = query]]
    /\ UNCHANGED <<splitter, nworkers, disk, map, lock, idx, queue, nsent, lastOp, started>>

\* a map that inserts on every lookup
VacantAlways(m, root) == TRUE

\* entry(project_path).or_insert_with(..): start runs when the key is vacant
Vacant(m, root) == m[root] = 0

\* CodeSearchServer::project_stub under the shard lock, ProjectService::start
\* when the entry is vacant, and the call on the stub: the request waits in
\* the stub's dispatch channel and the RefMut stays held across the await
Enter(c, root) ==
    LET fresh == Vacant(map, root)
        handle == IF fresh THEN started[root] + 1 ELSE map[root]
    IN
    /\ lock' = [lock EXCEPT ![root] = c]
    /\ map' = [map EXCEPT ![root] = handle]
    /\ started' = [started EXCEPT ![root] = IF fresh THEN @ + 1 ELSE @]
    /\ idx' = IF fresh THEN [idx EXCEPT ![root] = [NoIndexer EXCEPT !.state = "starting"]]
              ELSE idx
    /\ queue' = IF fresh THEN [queue EXCEPT ![root] = <<>>] ELSE queue
    /\ nsent' = IF fresh THEN [nsent EXCEPT ![root] = 0] ELSE nsent
    /\ req' = [req EXCEPT ![c].st = "calling", ![c].path = root, ![c].handle = handle]

\* first poll of CodeSearchServer::search_code on a worker thread
SearchCodePoll(c) ==
    /\ req[c].st = "spawned"
    /\ FreeWorkers >= 1
    /\ \/ /\ ~CanCanonicalize(req[c].path)
          /\ req' = [req EXCEPT ![c] = [IdleReq EXCEPT !.st = "panicked"]]
          /\ UNCHANGED <<map, lock, idx, queue, nsent, started>>
       \/ /\ CanCanonicalize(req[c].path)
          /\ lock[canonicalize(req[c].path)] = 0
          /\ Enter(c, canonicalize(req[c].path))
       \/ /\ CanCanonicalize(req[c].path)
          /\ lock[canonicalize(req[c].path)] # 0
          /\ req' = [req EXCEPT ![c].st = "blocked",
                                ![c].path = canonicalize(req[c].path)]
          /\ UNCHANGED <<map, lock, idx, queue, nsent, started>>
    /\ UNCHANGED <<splitter, nworkers, disk, lastOp>>

\* the shard lock is released and a parked request takes it
LockGranted(c) ==
    /\ req[c].st = "blocked"
    /\ lock[RootOf(c)] = 0
    /\ Enter(c, RootOf(c))
    /\ UNCHANGED <<splitter, nworkers, disk, lastOp>>

\* a message on the transport of a root; seq and updates are history: its
\* place in the order sent and the FileUpdated sent before it
Message(root, kind, n, path) ==
    [kind |-> kind, n |-> n, path |-> path, seq |-> nsent[root] + 1,
     updates |-> idx[root].updates
                 + Cardinality({i \in 1..Len(queue[root]) : queue[root][i].kind = "upd"})]

Send(root, m) ==
    /\ queue' = [queue EXCEPT ![root] = Append(@, m)]
    /\ nsent' = [nsent EXCEPT ![root] = @ + 1]

\* the dispatch task of the stub (ProjectRpcClient::spawn) is polled on a
\* worker thread and writes the request to the transport; a transport whose
\* server end was dropped fails the call
DispatchRequest(c) ==
    LET root == RootOf(c) IN
    /\ req[c].st = "calling"
    /\ FreeWorkers >= 1
    /\ IF idx[root].state = "dead"
       THEN /\ req' = [req EXCEPT ![c].st = "replied", ![c].reply = Reply("closed", <<>>)]
            /\ UNCHANGED <<queue, nsent>>
       ELSE /\ req' = [req EXCEPT ![c].st = "inflight"]
            /\ Send(root, Message(root, "search", c, ""))
    /\ UNCHANGED <<splitter, nworkers, disk, map, lock, idx, lastOp, started>>

\* the response reaches the dispatch task and the request task resumes on a
\* worker thread: a transport error is mapped to Internal, the RefMut drops
\* and the response leaves the server
Return(c) ==
    /\ req[c].st = "replied"
    /\ FreeWorkers >= 1
    /\ req' = [req EXCEPT ![c].st = "done",
                          ![c].query = <<>>,
                          ![c].reply = Reply(IF @.kind = "closed" THEN "internal" ELSE @.kind,
                                             <<>>)]
    /\ lock' = [lock EXCEPT ![RootOf(c)] = 0]
    /\ UNCHANGED <<splitter, nworkers, disk, map, idx, queue, nsent, lastOp, started>>

\* the worker thread of a root panics: the service and the server end of
\* the transport are dropped, calls in flight fail
Dead(ix) == [ix EXCEPT !.state = "dead", !.files = NoFiles, !.store = EmptyStore,
                       !.seen = [p \in Paths |-> Absent]]
FailInflight(root) ==
    [c \in ReqIds |->
        IF req[c].st = "inflight" /\ RootOf(c) = root
        THEN [req[c] EXCEPT !.st = "replied", !.reply = Reply("closed", <<>>)]
        ELSE req[c]]

\* the closure of spawn_blocking up to block_on: ProjectService::new(path).unwrap()
BringUp(root) ==
    /\ idx[root].state = "starting"
    /\ \E fault \in BringUpFaults :
        LET fs == ProjectFiles_new(disk, root, fault # "walk", fault # "parse")
            admitted == {p \in Walk(disk, root) : Ext(p) \in ScanExtensions}
            unread == {p \in admitted : ~ProjectFile_new(disk, p, fault # "parse").ok}
        IN
        \E order \in (IF fs.ok THEN Orders(fs.files) ELSE {<<>>}) :
            LET r == ProjectService_new(disk, root, order, fault) IN
            /\ lastOp' = [lastOp EXCEPT ![root] =
                    [kind |-> "bringup", fault |-> fault, unread |-> unread,
                     outcome |-> IF r.ok THEN "ok" ELSE "panic"]]
            /\ IF r.ok
               THEN /\ idx' = [idx EXCEPT ![root] =
                            [@ EXCEPT !.state = "serving", !.files = r.files,
                                      !.store = r.store, !.up = TRUE,
                                      !.waiting = Len(queue[root]),
                                      !.seen = [p \in Paths |->
                                        IF r.files[p].known THEN disk[p] ELSE Absent]]]
                    /\ UNCHANGED <<req, queue>>
               ELSE /\ idx' = [idx EXCEPT ![root] = Dead(@)]
                    /\ req' = FailInflight(root)
                    /\ queue' = [queue EXCEPT ![root] = <<>>]
    /\ UNCHANGED <<splitter, nworkers, disk, map, lock, nsent, started>>

\* a worker that serves while ProjectService::new is still running
CanServeEarly(root) == idx[root].state \in {"starting", "serving"}

\* the worker serves requests once ProjectService::new has returned
CanServe(root) == idx[root].state = "serving"

\* a stream that yields the request sent last
NewestMessage(q) == [msg |-> q[Len(q)], rest |-> SubSeq(q, 1, Len(q) - 1)]

\* the stream of the server channel yields the requests in the order sent
NextMessage(q) == [msg |-> Head(q), rest |-> Tail(q)]

RowsOf(store, path) ==
    SelectSeq(store.chunks, LAMBDA r : store.files[r.file_id].path = path)

\* what is kept of the step before the last one
Summary(op) ==
    IF op.kind \in {"search", "upd"}
    THEN [kind |-> op.kind, path |-> op.path, outcome |-> op.outcome, read |-> op.read]
    ELSE [kind |-> op.kind, path |-> "", outcome |-> "", read |-> Absent]

\* what lastOp records of a handled message: the message, the fault met,
\* the outcome, the chunk rows of the path before (FileUpdated) or the
\* response (SearchCode), its place in the order sent and in the order
\* handled, the FileUpdated sent before it and handled before it, whether
\* ProjectService::new had returned, the store before the message, what the
\* disk held at the path of a FileUpdated, and the step before
Handled(root, m, fault, outcome, before, resp) ==
    [kind |-> m.kind, n |-> m.n, path |-> m.path, fault |-> fault, outcome |-> outcome,
     before |-> before, resp |-> resp, seq |-> m.seq, nth |-> idx[root].handled + 1,
     sent_after |-> m.updates, applied |-> idx[root].updates, up |-> idx[root].up,
     was |-> idx[root].store,
     read |-> IF m.kind = "upd" THEN disk[m.path] ELSE Absent,
     prev |-> Summary(lastOp[root])]

SearchFaults == {"none", "embed", "store"}

\* ProjectRpc::search_code of the worker
HandleSearch(root) ==
    /\ CanServe(root)
    /\ queue[root] # <<>>
    /\ NextMessage(queue[root]).msg.kind = "search"
    /\ LET m == NextMessage(queue[root]).msg
           c == m.n
       IN
       \E fault \in SearchFaults :
        \* repository.search(&query).unwrap(), then chunks_to_response
        LET found == search(idx[root].store, req[c].query, fault # "none")
            resp == IF found.ok THEN chunks_to_response(idx[root].files, found.chunks)
                    ELSE Panicked
        IN
        /\ lastOp' = [lastOp EXCEPT ![root] =
                Handled(root, m, fault, IF resp.ok THEN "ok" ELSE "panic", <<>>,
                        resp.chunks)]
        /\ IF resp.ok
           THEN /\ req' = [req EXCEPT ![c].st = "replied",
                                      ![c].reply = Reply("ok", resp.chunks)]
                /\ queue' = [queue EXCEPT ![root] = NextMessage(@).rest]
                /\ idx' = [idx EXCEPT ![root].handled = @ + 1]
           ELSE /\ idx' = [idx EXCEPT ![root] = Dead([@ EXCEPT !.handled = @ + 1])]
                /\ req' = FailInflight(root)
                /\ queue' = [queue EXCEPT ![root] = <<>>]
    /\ UNCHANGED <<splitter, nworkers, disk, map, lock, nsent, started>>

\* ProjectRpc::file_updated of the worker
HandleUpdate(root) ==
    /\ CanServe(root)
    /\ queue[root] # <<>>
    /\ NextMessage(queue[root]).msg.kind = "upd"
    /\ LET m == NextMessage(queue[root]).msg
           path == m.path
           before == RowsOf(idx[root].store, path)
       IN
       \E parses \in BOOLEAN :
        LET cu == create_or_update(idx[root].files, disk, path, parses)
            fc == IF cu.ok THEN file_chunks(cu.files, path) ELSE Panicked
        IN
        \E fault \in (IF cu.ok /\ fc.ok THEN InsertFaults(Len(fc.chunks)) ELSE {NoFault}) :
            LET ins == IF cu.ok /\ fc.ok
                       THEN insert_file(idx[root].store, path, RepoChunks(fc.chunks), fault)
                       ELSE [ok |-> FALSE, store |-> idx[root].store]
            IN
            /\ lastOp' = [lastOp EXCEPT ![root] =
                    Handled(root, m,
                            IF ~cu.ok THEN "file" ELSE IF ~fc.ok THEN "chunks" ELSE fault.at,
                            IF ~cu.ok THEN "internal"
                            ELSE IF ~fc.ok THEN "panic"
                            ELSE IF ins.ok THEN "ok" ELSE "internal",
                            before, <<>>)]
            /\ IF cu.ok /\ ~fc.ok
               THEN /\ idx' = [idx EXCEPT ![root] =
                            Dead([@ EXCEPT !.handled = @ + 1, !.updates = @ + 1])]
                    /\ req' = FailInflight(root)
                    /\ queue' = [queue EXCEPT ![root] = <<>>]
               ELSE /\ idx' = [idx EXCEPT
                            ![root].files = IF cu.ok THEN cu.files ELSE @,
                            ![root].seen[path] = IF cu.ok THEN disk[path] ELSE @,
                            ![root].store = ins.store,
                            ![root].handled = @ + 1,
                            ![root].updates = @ + 1]
                    /\ queue' = [queue EXCEPT ![root] = NextMessage(@).rest]
                    /\ req' = [req EXCEPT ![m.n].st = "replied",
                                          ![m.n].reply = Reply(IF ins.ok THEN "ok" ELSE "internal",
                                                               <<>>)]
    /\ UNCHANGED <<splitter, nworkers, disk, map, lock, nsent, started>>

\* The server: clients, the dispatcher, the request tasks on the worker
\* threads and the Project Indexers.  Nothing in the server calls
\* file_updated.
Next ==
    \/ \E c \in ReqIds, project_path \in ReqPaths, query \in Queries :
            Request(c, project_path, query)
    \/ \E c \in ReqIds : SearchCodePoll(c)
    \/ \E c \in ReqIds : LockGranted(c)
    \/ \E c \in ReqIds : DispatchRequest(c)
    \/ \E c \in ReqIds : Return(c)
    \/ \E root \in Roots : BringUp(root)
    \/ \E root \in Roots : HandleSearch(root)

Spec == Init /\ [][Next]_vars

-----------------------------------------------------------------------------
(* One Project Indexer and the holder of its stub, who calls search_code   *)
(* and file_updated on it.                                                 *)

\* the state ProjectService::start("/a") returns in: the worker is spawned
\* and the stub is in the caller's hands
IndexerInit ==
    /\ nworkers = 1
    /\ disk = InitDisk
    /\ map = [r \in Roots |-> IF r = "/a" THEN 1 ELSE 0]
    /\ lock = [r \in Roots |-> 0]
    /\ req = [c \in 1..MaxCalls |-> IdleReq]
    /\ idx = [r \in Roots |->
                IF r = "/a" THEN [NoIndexer EXCEPT !.state = "starting"] ELSE NoIndexer]
    /\ queue = [r \in Roots |-> <<>>]
    /\ nsent = [r \in Roots |-> 0]
    /\ lastOp = [r \in Roots |-> NoOp]
    /\ started = [r \in Roots |-> IF r = "/a" THEN 1 ELSE 0]
    /\ splitter = NoSplitter

\* a call on the stub is written to the transport, or fails at once when
\* the server end was dropped
Call(c, root, kind, path, query) ==
    /\ map[root] # 0
    /\ req[c].st = "idle"
    /\ \A b \in ReqIds : b < c => req[b].st # "idle"
    /\ IF idx[root].state = "dead"
       THEN /\ req' = [req EXCEPT ![c] = [IdleReq EXCEPT !.st = "replied", !.kind = kind,
                                                         !.path = root,
                                                         !.reply = Reply("closed", <<>>)]]
            /\ UNCHANGED <<queue, nsent>>
       ELSE /\ req' = [req EXCEPT ![c] = [IdleReq EXCEPT !.st = "inflight", !.kind = kind,
                                                         !.path = root, !.query = query]]
            /\ Send(root, Message(root, kind, c, path))
    /\ UNCHANGED <<splitter, nworkers, disk, map, lock, idx, lastOp, started>>

\* ProjectRpcClient::search_code
CallSearch(c, root, query) == Call(c, root, "search", "", query)

\* ProjectRpcClient::file_updated
CallUpdate(c, root, path) == Call(c, root, "upd", path, <<>>)

\* the caller takes the response of its call
Receive(c) ==
    /\ req[c].st = "replied"
    /\ req' = [req EXCEPT ![c].st = "done", ![c].query = <<>>,
                          ![c].reply = Reply(@.kind, <<>>)]
    /\ UNCHANGED <<splitter, nworkers, disk, map, lock, idx, queue, nsent, lastOp, started>>

IndexerNext ==
    \/ \E p \in MutablePaths, content \in {File(t) : t \in Texts} \cup {Invalid} :
            WriteFile(p, content)
    \/ \E c \in ReqIds, root \in Roots, query \in Queries : CallSearch(c, root, query)
    \/ \E c \in ReqIds, root \in Roots, path \in UpdatePaths : CallUpdate(c, root, path)
    \/ \E c \in ReqIds : Receive(c)
    \/ \E root \in Roots : BringUp(root)
    \/ \E root \in Roots : HandleSearch(root)
    \/ \E root \in Roots : HandleUpdate(root)

IndexerSpec == IndexerInit /\ [][IndexerNext]_vars

\* The scheduling of the server: a task that can be polled is polled, a
\* parked thread takes a lock that stays free, the worker of a project runs.
\* The closure of spawn_blocking has a thread of its own: BringUp(root) is
\* enabled exactly while the state is "starting" and leaves it, so its weak
\* fairness is that the state is not "starting" for ever. Clients owe nothing.
FairSpec ==
    /\ Spec
    /\ \A c \in 1..MaxRequests :
        /\ WF_vars(SearchCodePoll(c))
        /\ WF_vars(LockGranted(c))
        /\ WF_vars(DispatchRequest(c))
        /\ WF_vars(Return(c))
    /\ \A root \in Roots :
        /\ []<>(idx[root].state # "starting")
        /\ WF_vars(HandleSearch(root))

-----------------------------------------------------------------------------
(* Properties *)

IsMessage(op) == op.kind \in {"search", "upd"}

\* C1: for every canonical root ProjectService::start has run at most once,
\* and every request that obtained a stub for the root holds the handle the
\* dispatcher map holds for it.
C1_OneIndexerPerRoot ==
    /\ \A r \in Roots : started[r] <= 1 /\ map[r] = started[r]
    /\ \A c \in ReqIds : req[c].handle # 0 => req[c].handle = map[req[c].path]

C1_Witness ==
    \E c, b \in ReqIds :
        /\ c # b
        /\ req[c].handle # 0 /\ req[b].handle # 0
        /\ req[c].path = req[b].path
        /\ started[req[c].path] = 1

\* C2: simultaneous search_code requests start the bring-up of a root once,
\* and every request for an existing root is eventually answered
\* successfully, unless the bring-up or a search of that root has failed.
C2_EveryRequestSucceeds ==
    /\ [](\A r \in Roots : started[r] <= 1)
    /\ \A c \in 1..MaxRequests :
        (req[c].st = "spawned" /\ CanCanonicalize(req[c].path))
            ~> \/ (req[c].st = "done" /\ req[c].reply.kind = "ok")
               \/ \E r \in Roots : r = canonicalize(req[c].path) /\ idx[r].state = "dead"

\* C3: the worker handles the messages of its project in the order they were
\* sent, and when it handles a SearchCode every FileUpdated sent before it
\* has been handled.
C3_ArrivalOrder ==
    \A r \in Roots :
        IsMessage(lastOp[r]) =>
            /\ lastOp[r].seq = lastOp[r].nth
            /\ lastOp[r].kind = "search" => lastOp[r].applied = lastOp[r].sent_after

C3_Witness ==
    \E r \in Roots :
        /\ lastOp[r].kind = "search"
        /\ lastOp[r].outcome = "ok"
        /\ lastOp[r].sent_after >= 1

\* C4: a FileUpdated that fails leaves the chunk rows of its path as they
\* were before the message.
C4_FailedUpdateKeepsRows ==
    \A r \in Roots :
        (lastOp[r].kind = "upd" /\ lastOp[r].outcome # "ok") =>
            RowsOf(idx[r].store, lastOp[r].path) = lastOp[r].before

\* the bytes of a path that a response chunk stands for, in a given text
SameBytes(chunk, text) ==
    /\ chunk.byte.start <= chunk.byte.end
    /\ chunk.byte.end <= Len(text)
    /\ chunk.content = Slice(text, chunk.byte.start, chunk.byte.end)

\* C5: the content of every chunk of a search response is taken from what
\* the last successful read of its path (bring-up or FileUpdated) returned.
C5_ContentIsLatest ==
    \A r \in Roots :
        (lastOp[r].kind = "search" /\ lastOp[r].outcome = "ok") =>
            \A i \in 1..Len(lastOp[r].resp) :
                SameBytes(lastOp[r].resp[i], idx[r].seen[lastOp[r].resp[i].path].bytes)

\* C6: a bring-up that meets a file it cannot construct still completes.
C6_ScanSkipsBadFile ==
    \A r \in Roots :
        (/\ lastOp[r].kind = "bringup"
         /\ lastOp[r].unread # {}
         /\ lastOp[r].fault \in {"none", "parse"}) =>
            /\ lastOp[r].outcome = "ok"
            /\ idx[r].state = "serving"

\* C7: a SearchCode whose embedding or store search fails is answered with
\* an Internal error and the worker lives on.
C7_SearchFailureIsInternal ==
    \A r \in Roots :
        (lastOp[r].kind = "search" /\ lastOp[r].fault # "none") =>
            /\ idx[r].state = "serving"
            /\ req[lastOp[r].n].reply.kind = "internal"

\* C8: after a request that failed on the embedding oracle the worker of the
\* project is still serving.
C8_OracleFailureNotFatal ==
    \A r \in Roots :
        (IsMessage(lastOp[r]) /\ lastOp[r].fault = "embed") => idx[r].state = "serving"

\* C9: when the file on disk is what was last indexed, the content of every
\* chunk of a search response is the bytes of the file on disk at the
\* chunk's byte range.
C9_RoundTrip ==
    \A r \in Roots :
        (lastOp[r].kind = "search" /\ lastOp[r].outcome = "ok") =>
            \A i \in 1..Len(lastOp[r].resp) :
                LET chunk == lastOp[r].resp[i] IN
                (IsText(disk[chunk.path]) /\ disk[chunk.path] = idx[r].seen[chunk.path])
                    => SameBytes(chunk, disk[chunk.path].bytes)

\* C10: no message is handled before ProjectService::new has returned;
\* messages sent before that wait in the transport.
C10_NoMessageBeforeBringUp ==
    \A r \in Roots :
        /\ idx[r].handled > 0 => idx[r].up
        /\ IsMessage(lastOp[r]) => lastOp[r].up
        /\ idx[r].state = "starting" => idx[r].handled = 0

C10_Witness ==
    \E r \in Roots : idx[r].waiting > 0 /\ idx[r].handled > 0 /\ idx[r].state = "serving"

\* C11: the transport into a Project Indexer makes a sender wait: it never
\* holds all the calls that the holders of the stub have to make.
C11_QueueBounded ==
    \A r \in Roots : Len(queue[r]) < MaxCalls

\* the files rows of a path
FileRecords(store, path) == {i \in 1..Len(store.files) : store.files[i].path = path}

\* the store holds one file record for the path, and its chunk rows are the
\* rows of the chunks cs, one for one and in the order of cs
StoredAs(store, path, cs) ==
    /\ Cardinality(FileRecords(store, path)) = 1
    /\ LET rows == RowsOf(store, path) IN
       /\ Len(rows) = Len(cs)
       /\ \A i \in 1..Len(rows) :
            /\ rows[i] = ChunkRow(rows[i].id, FileId(store, path), cs[i])
            /\ i > 1 => rows[i - 1].id < rows[i].id

\* C12: between messages every file of the file set has one file record in
\* the store whose chunk rows are, in order, the chunks the file produces.
C12_StoreMatchesFiles ==
    \A r \in Roots :
        idx[r].state = "serving" =>
            \A p \in Paths :
                idx[r].files[p].known =>
                    LET fc == ProjectFile_chunks(idx[r].files[p]) IN
                    fc.ok /\ StoredAs(idx[r].store, p, RepoChunks(fc.chunks))

\* the files table apart from updated_at
FilesWithoutTime(store) ==
    [i \in 1..Len(store.files) |-> [store.files[i] EXCEPT !.updated_at = 0]]

\* the last two messages handled were successful FileUpdated of one path
\* that read the same file contents
UpdatedTwice(op) ==
    /\ op.kind = "upd" /\ op.outcome = "ok"
    /\ op.prev.kind = "upd" /\ op.prev.outcome = "ok"
    /\ op.prev.path = op.path
    /\ op.prev.read = op.read

\* C13: the second FileUpdated(p) leaves the store as the first left
\* it, apart from updated_at.
C13_SecondUpdateSameStore ==
    \A r \in Roots :
        UpdatedTwice(lastOp[r]) =>
            /\ FilesWithoutTime(idx[r].store) = FilesWithoutTime(lastOp[r].was)
            /\ idx[r].store.chunks = lastOp[r].was.chunks

\* C14: after a FileUpdated whose create_or_update succeeded, the text of
\* the file is what was read from disk, its hash is the hash of that text
\* and its tree the parse of that text.
C14_UpdateReplacesText ==
    \A r \in Roots :
        (/\ lastOp[r].kind = "upd"
         /\ lastOp[r].fault # "file"
         /\ idx[r].state = "serving") =>
            LET file == idx[r].files[lastOp[r].path] IN
            /\ file.known
            /\ file.text = lastOp[r].read.bytes
            /\ file.hash = hash_file(file.text)
            /\ file.tree = Parse(file.text)

\* C15: after a FileUpdated whose insert_file succeeded, the chunk rows of
\* the path are the chunks handed to insert_file, in their order, all of
\* them inserted by this call, and the rows of the other paths are as before.
C15_UpsertReplacesRows ==
    \A r \in Roots :
        (lastOp[r].kind = "upd" /\ lastOp[r].outcome = "ok") =>
            LET path == lastOp[r].path
                given == file_chunks(idx[r].files, path)
                rows == RowsOf(idx[r].store, path)
            IN
            /\ given.ok
            /\ StoredAs(idx[r].store, path, RepoChunks(given.chunks))
            /\ \A i \in 1..Len(rows) : rows[i].id >= lastOp[r].was.next_id
            /\ \A p \in Paths \ {path} :
                RowsOf(idx[r].store, p) = RowsOf(lastOp[r].was, p)

C15_Witness ==
    \E r \in Roots :
        /\ lastOp[r].kind = "upd" /\ lastOp[r].outcome = "ok"
        /\ lastOp[r].before # <<>>
        /\ RowsOf(idx[r].store, lastOp[r].path) # <<>>
        /\ \E p \in Paths \ {lastOp[r].path} : RowsOf(idx[r].store, p) # <<>>

-----------------------------------------------------------------------------
(* The chunker on its own: CodeSplitter::new(&tree, &source, max).chunks()  *)
(* over the trees a parser can return for a source.  A node lies on        *)
(* character boundaries, begins and ends with a byte that is not white     *)
(* space or is zero-width (a MISSING node), its children lie inside it in  *)
(* order without overlap, only white space lies between siblings, and a    *)
(* node with children begins with its first child and ends with its last.  *)
(* The root spans the source.                                              *)

MaxNodes == 5       \* nodes of a tree below its root
MaxLimit == 4       \* max_chunk_size
MaxMissing == 1     \* zero-width nodes of one tree

\* "ab cd", "a\nbc d", "éè b" (two-byte characters), and the empty file
Sources ==
    {<<97, 98, 32, 99, 100>>, <<97, 10, 98, 99, 32, 100>>,
     <<195, 169, 195, 168, 32, 98>>, <<>>}

AllSpace(src, s, e) == \A i \in (s + 1)..e : IsSpace(src[i])

\* the spans a node may have inside s..e
Spans(src, s, e) ==
    {sp \in (s..e) \X (s..e) :
        /\ sp[1] <= sp[2]
        /\ IsCharBoundary(src, sp[1]) /\ IsCharBoundary(src, sp[2])
        /\ sp[1] < sp[2] => (~IsSpace(src[sp[1] + 1]) /\ ~IsSpace(src[sp[2]]))}

RECURSIVE NodesIn(_, _)
\* the nodes among the first n children of a node, and below them
NodesIn(t, n) ==
    IF n = 0 THEN 0
    ELSE NodesIn(t, n - 1) + 1 + NodesIn(t.kids[n], Len(t.kids[n].kids))

RECURSIVE MissingIn(_, _)
\* the zero-width nodes among them
MissingIn(t, n) ==
    IF n = 0 THEN 0
    ELSE MissingIn(t, n - 1) + MissingIn(t.kids[n], Len(t.kids[n].kids))
         + (IF t.kids[n].sb = t.kids[n].eb THEN 1 ELSE 0)

RECURSIVE Trees(_, _, _, _, _)
RECURSIVE Forests(_, _, _, _, _)

\* the nodes with span s..e that have at most n nodes below them, at most z
\* of them zero-width
Trees(src, s, e, n, z) ==
    {Node(src, s, e, <<>>)}
    \cup (IF n = 0 \/ s = e THEN {}
          ELSE {Node(src, s, e, kids) :
                    kids \in {f \in Forests(src, s, e, n, z) :
                                /\ f # <<>>
                                /\ f[1].sb = s
                                /\ f[Len(f)].eb = e}})

\* the sequences of sibling nodes inside s..e with at most n nodes in all,
\* at most z of them zero-width
Forests(src, s, e, n, z) ==
    (IF AllSpace(src, s, e) THEN {<<>>} ELSE {})
    \cup (IF n = 0 THEN {}
          ELSE UNION {
                 UNION {
                    {<<t>> \o rest :
                        rest \in Forests(src, sp[2], e,
                                         n - 1 - NodesIn(t, Len(t.kids)),
                                         z - MissingIn(t, Len(t.kids))
                                           - (IF sp[1] = sp[2] THEN 1 ELSE 0))} :
                    t \in Trees(src, sp[1], sp[2], n - 1,
                                IF sp[1] = sp[2] THEN z - 1 ELSE z)} :
                 sp \in {x \in Spans(src, s, e) :
                            /\ AllSpace(src, s, x[1])
                            /\ x[1] = x[2] => z > 0}})

\* the trees of a source
ParseTrees(src) ==
    {Node(src, 0, Len(src), kids) : kids \in Forests(src, 0, Len(src), MaxNodes, MaxMissing)}

SplitterInit ==
    /\ nworkers = 1
    /\ disk = InitDisk
    /\ map = [r \in Roots |-> 0]
    /\ lock = [r \in Roots |-> 0]
    /\ req = [c \in 1..MaxCalls |-> IdleReq]
    /\ idx = [r \in Roots |-> NoIndexer]
    /\ queue = [r \in Roots |-> <<>>]
    /\ nsent = [r \in Roots |-> 0]
    /\ lastOp = [r \in Roots |-> NoOp]
    /\ started = [r \in Roots |-> 0]
    /\ \E source \in Sources, max \in 1..MaxLimit :
       \E tree \in ParseTrees(source) :
            splitter = [done |-> FALSE, source |-> source, tree |-> tree, max |-> max,
                        result |-> Panicked]

\* CodeSplitter::chunks
Split ==
    /\ ~splitter.done
    /\ splitter' = [splitter EXCEPT !.done = TRUE,
                                    !.result = chunks(splitter.tree, splitter.source,
                                                      splitter.max)]
    /\ UNCHANGED <<nworkers, disk, map, lock, req, idx, queue, nsent, lastOp, started>>

SplitterNext == Split

SplitterSpec == SplitterInit /\ [][SplitterNext]_vars

-----------------------------------------------------------------------------
(* Properties of the chunker *)

RECURSIVE SpansBelow(_, _)
\* the nodes among the first n children of a node, and below them
SpansBelow(t, n) ==
    IF n = 0 THEN {}
    ELSE SpansBelow(t, n - 1) \cup {t.kids[n]} \cup SpansBelow(t.kids[n], Len(t.kids[n].kids))

\* the nodes of the tree below the root
NodesOf(t) == SpansBelow(t, Len(t.kids))
LeavesOf(t) == {n \in NodesOf(t) : n.kids = <<>>}

\* the chunk is the span of the node
IsNode(chunk, n) == chunk.range.start = n.sb /\ chunk.range.end = n.eb

Emitted == IF splitter.done /\ splitter.result.ok THEN splitter.result.chunks ELSE <<>>

\* C16: every emitted chunk has at most max_chunk_size characters, unless
\* it is one leaf of the tree.
C16_ChunkWithinLimit ==
    splitter.done =>
        /\ splitter.result.ok
        /\ \A i \in 1..Len(Emitted) :
            \/ CharCount(Emitted[i].text) <= splitter.max
            \/ \E n \in LeavesOf(splitter.tree) : IsNode(Emitted[i], n)

\* C17: the emitted chunks are in non-decreasing order of their start byte
\* and do not overlap: each chunk starts at or after the end of the one
\* before it.
C17_OrderedNoOverlap ==
    splitter.done =>
        /\ splitter.result.ok
        /\ \A i \in 1..(Len(Emitted) - 1) :
            /\ Emitted[i].range.start <= Emitted[i + 1].range.start
            /\ Emitted[i].range.end <= Emitted[i + 1].range.start

\* a chunk before, a chunk inside and a chunk after an oversize child that
\* was recursed into
C17_Witness ==
    /\ splitter.done
    /\ \E k \in 2..(Len(splitter.tree.kids) - 1) :
        LET child == splitter.tree.kids[k] IN
        /\ RangeLen(child.sb, child.eb) > splitter.max
        /\ child.kids # <<>>
        /\ \E a, b, c \in 1..Len(Emitted) :
            /\ a < b /\ b < c
            /\ Emitted[a].range.end <= child.sb
            /\ child.sb < Emitted[b].range.end /\ Emitted[b].range.end <= child.eb
            /\ child.eb <= Emitted[c].range.start

\* C18: a node with no children whose span has more than max_chunk_size
\* characters is emitted as one chunk of its own.
C18_OversizeLeafEmitted ==
    splitter.done =>
        \A n \in LeavesOf(splitter.tree) :
            CharCount(Slice(splitter.source, n.sb, n.eb)) > splitter.max =>
                \E i \in 1..Len(Emitted) : IsNode(Emitted[i], n)

\* the children of the root that have children of their own and more than
\* max_chunk_size characters
OversizeFunctions ==
    {k \in 1..Len(splitter.tree.kids) :
        LET n == splitter.tree.kids[k] IN
        /\ n.kids # <<>>
        /\ CharCount(Slice(splitter.source, n.sb, n.eb)) > splitter.max}

\* byte b lies in the range of an emitted chunk
Covered(b) ==
    \E i \in 1..Len(Emitted) :
        Emitted[i].range.start <= b /\ b < Emitted[i].range.end

\* C19: when the file holds one function larger than max_chunk_size, every
\* byte of that function's span lies within an emitted chunk.
C19_OversizeNodeCovered ==
    (splitter.done /\ Cardinality(OversizeFunctions) = 1) =>
        \A k \in OversizeFunctions :
            \A b \in splitter.tree.kids[k].sb..(splitter.tree.kids[k].eb - 1) : Covered(b)

\* C20: every emitted chunk has range.start < range.end, and an empty source
\* gives no chunk.
C20_NoEmptyChunk ==
    splitter.done =>
        /\ splitter.result.ok
        /\ \A i \in 1..Len(Emitted) : Emitted[i].range.start < Emitted[i].range.end
        /\ (splitter.source = <<>> => Emitted = <<>>)

\* the first child is a zero-width node at byte 0, which makes an empty
\* current_chunk, and the next child is oversize, so that current_chunk is
\* taken and tested at the head of the loop; chunks follow from the recursion
C20_Witness ==
    /\ splitter.done
    /\ Len(splitter.tree.kids) >= 2
    /\ splitter.tree.kids[1].sb = 0
    /\ splitter.tree.kids[1].eb = 0
    /\ RangeLen(splitter.tree.kids[2].sb, splitter.tree.kids[2].eb) > splitter.max
    /\ Emitted # <<>>

-----------------------------------------------------------------------------
(* Properties of the file set *)

\* the step handles a FileUpdated of the indexer of root
HandlesUpdate(r) ==
    /\ idx'[r].handled = idx[r].handled + 1
    /\ lastOp'[r].kind = "upd"

\* create_or_update of the path cannot succeed: the file cannot be read, or
\* the path is unknown and its extension has no language
CannotLoad(r, p) ==
    \/ ~IsText(disk[p])
    \/ ~idx[r].files[p].known /\ ~ext_to_language(Ext(p))

\* C21: a FileUpdated whose create_or_update fails leaves the file set and
\* the store as they were and is answered with the error.
C21_FailedLoadChangesNothing ==
    [][\A r \in Roots :
        (/\ HandlesUpdate(r)
         /\ lastOp'[r].fault = "file" \/ CannotLoad(r, lastOp'[r].path)) =>
            /\ idx'[r].files = idx[r].files
            /\ idx'[r].store = idx[r].store
            /\ idx'[r].state = "serving"
            /\ req'[lastOp'[r].n].st = "replied"
            /\ req'[lastOp'[r].n].reply.kind = "internal"]_vars

\* a FileUpdated of a known file with rows in the store failed in
\* create_or_update and was answered with the error
C21_Witness ==
    \E r \in Roots :
        /\ lastOp[r].kind = "upd"
        /\ lastOp[r].fault = "file"
        /\ idx[r].files[lastOp[r].path].known
        /\ RowsOf(idx[r].store, lastOp[r].path) # <<>>
        /\ req[lastOp[r].n].st = "replied"
        /\ req[lastOp[r].n].reply.kind = "internal"

\* C22: the start and end positions of every emitted chunk are the row and
\* column of the bytes its range starts and ends at.
C22_PositionsMatchRange ==
    splitter.done =>
        \A i \in 1..Len(Emitted) :
            /\ Emitted[i].start = PointAt(splitter.source, Emitted[i].range.start)
            /\ Emitted[i].end = PointAt(splitter.source, Emitted[i].range.end)

\* every node of the file's tree lies within the file's text
TreeWithinText(file) ==
    \A n \in NodesOf(file.tree) : n.sb <= n.eb /\ n.eb <= Len(file.text)

\* C23: the tree of every known file lies within the file's text, and
\* neither the chunking of a FileUpdated nor the hydration of a search
\* slices a text out of bounds.
C23_SlicesWithinText ==
    \A r \in Roots :
        /\ \A p \in Paths : idx[r].files[p].known => TreeWithinText(idx[r].files[p])
        /\ ~(lastOp[r].kind = "upd" /\ lastOp[r].fault = "chunks")
        /\ ~(lastOp[r].kind = "search" /\ lastOp[r].fault = "none"
                /\ lastOp[r].outcome = "panic")

-----------------------------------------------------------------------------
(* Properties of the dispatcher map *)

\* C24: every handle in the dispatcher map is the handle of an indexer whose
\* worker is in bring-up or serving.
C24_HandlesAreAlive ==
    \A r \in Roots :
        map[r] # 0 => idx[r].state \in {"starting", "serving"}

====
